---- MODULE Spec2Model ----
(***************************************************************************)
(* Order deduplication and bulk-notification pipeline of the admin panel:  *)
(* processAndSendSheetData (utils/processSheets.ts), the tracking ledger   *)
(* (lib/databaseService.ts), the WhatsApp notification service             *)
(* (lib/whatsappService.ts), BatchProcessor (lib/performanceService.ts)    *)
(* and the webhook route the pipeline forwards to                          *)
(* (app/api/webhooks/googleSheets/route.ts).                               *)
(***************************************************************************)
EXTENDS Integers, Sequences, FiniteSets, TLC

----------------------------------------------------------------------------
(* Bounds of the explored inputs                                           *)

MaxRows == 2
MaxRuns == 2
MaxLen == 3
MaxOps == 12
MaxShared == 4
MaxPosts == 12
MaxTime == 4
WindowTicks == 2
NClients == 11

----------------------------------------------------------------------------
(* Program constants                                                       *)

BATCH_SIZE == 10
CONCURRENT_BATCHES == 5
MIN_COLUMNS == 4
MAX_CONCURRENT == 10
WEBHOOK_MAX_REQUESTS == 10

----------------------------------------------------------------------------
(* Generic helpers                                                         *)

Range(s) == {s[i] : i \in 1..Len(s)}

SeqsUpTo(S, n) == UNION {[1..k -> S] : k \in 0..n}

----------------------------------------------------------------------------
(* Input domains                                                           *)

TrackingNumbers == {"T1", "T2"}
ClientCodes == {"A", "B"}
Phones == {"", "700"}
SheetTitles == <<"S1">>
SheetNames == {"", " ", "S1", "S9"}

\* a sheet row: n cells, cell 2 the tracking number, cell 3 the client code
Header == [n |-> 4, track |-> "hdr", code |-> "hdr"]
RowKinds ==
  { [n |-> 3, track |-> "T1", code |-> ""],
    [n |-> 4, track |-> "",   code |-> "A"],
    [n |-> 4, track |-> " ",  code |-> "B"],
    [n |-> 4, track |-> "T1", code |-> ""],
    [n |-> 4, track |-> "T1", code |-> "X"],
    [n |-> 4, track |-> "T1", code |-> "A"],
    [n |-> 4, track |-> "T2", code |-> "A"],
    [n |-> 4, track |-> "T1", code |-> "B"],
    [n |-> 4, track |-> "T2", code |-> "B"],
    [n |-> 4, track |-> "T2", code |-> " "],
    [n |-> 4, track |-> "T2", code |-> "constructor"] }

\* the rows the pipeline runs read: the valid rows and one skipped row
PipelineRows == {row \in RowKinds : row.n = 4 /\ row.code \in ClientCodes
                                      /\ row.track # " "}

\* values of the order sheet: no rows at all, or a header and data rows
SheetContents == {<<>>} \cup {<<Header>> \o d : d \in SeqsUpTo(PipelineRows, MaxRows)}

\* the client directory: code -> client info; two codes may share a phone
ClientInfo(nm, ph) == [name |-> nm, phone |-> ph, pickup |-> "pp"]
ClientDirs ==
  { [c \in ClientCodes |-> IF c = "A" THEN ClientInfo("nA", "700")
                                       ELSE ClientInfo("nB", ph)] : ph \in Phones }
EmptyMap == [c \in {} |-> ClientInfo("", "")]

\* outcomes of one request to the messaging gateway
GatewayOutcomes == {"ok", "non200", "timeout", "throw"}

\* process environment read at module load
\* NEXTAUTH_URL: unset (or empty), or the address of the application
NextAuthUrls == {"", "https://app"}

WorkingEnv ==
  [spreadsheetId |-> TRUE, sheets |-> TRUE, gateway |-> TRUE,
   nextAuthUrl |-> "https://app"]

Envs ==
  { WorkingEnv,
    [WorkingEnv EXCEPT !.spreadsheetId = FALSE],
    [WorkingEnv EXCEPT !.sheets = FALSE],
    [WorkingEnv EXCEPT !.gateway = FALSE] }

----------------------------------------------------------------------------
(* Order extraction: processOrders                                         *)

\* a trim that keeps the blanks
TrimKeeps(s) == s

\* String.prototype.trim on the cell values of the model
Trim(s) == IF s = " " THEN "" ELSE s

isValidTrackNumber(trackNumber) == trackNumber # "" /\ Trim(trackNumber) # ""

\* keys every object literal {} answers to without having them: clientMap
\* and storage are plain objects, and obj[key] finds Object.prototype members
InheritedKeys == {"constructor"}

\* the value of `obj[key]` is truthy
Truthy(keys, key) == key \in keys \/ key \in InheritedKeys

\* the row is skipped by one of the `continue` branches of the loop
RowSkipped(row, clientMap) ==
  \/ row.n < MIN_COLUMNS
  \/ Trim(row.track) = ""
  \/ Trim(row.code) = ""
  \/ ~isValidTrackNumber(Trim(row.track))
  \/ ~Truthy(DOMAIN clientMap, Trim(row.code))

\* a row that is not skipped and whose client code is an inherited key:
\* `!storage[clientCode]` is false, no entry is created, and
\* Object.keys(storage[clientCode].Заказы) throws a TypeError
RowThrows(row, clientMap) ==
  ~RowSkipped(row, clientMap) /\ Trim(row.code) \in InheritedKeys

\* the loop throws at some data row
LoopThrows(rows, clientMap) ==
  \E i \in 2..Len(rows) : RowThrows(rows[i], clientMap)

\* position of clientCode among the keys of storage, 0 when absent
RECURSIVE KeyIndex(_, _, _)
KeyIndex(storage, clientCode, i) ==
  IF i > Len(storage) THEN 0
  ELSE IF storage[i].code = clientCode THEN i
       ELSE KeyIndex(storage, clientCode, i + 1)

RECURSIVE MaxId(_)
MaxId(orders) ==
  IF Len(orders) = 0 THEN 0
  ELSE LET m == MaxId(Tail(orders))
       IN  IF Head(orders).id > m THEN Head(orders).id ELSE m

NextOrderId(existingOrders) ==
  IF Len(existingOrders) # 0 THEN MaxId(existingOrders) + 1 ELSE 1

\* storage[clientCode].Заказы[orderId] = {...}, creating the client entry first
AddOrder(storage, clientCode, clientMap, trackNumber) ==
  LET withClient ==
        IF KeyIndex(storage, clientCode, 1) = 0
        THEN Append(storage, [code   |-> clientCode,
                              name   |-> clientMap[clientCode].name,
                              phone  |-> clientMap[clientCode].phone,
                              pickup |-> clientMap[clientCode].pickup,
                              orders |-> <<>>])
        ELSE storage
      k == KeyIndex(withClient, clientCode, 1)
      existingOrders == withClient[k].orders
      order == [id |-> NextOrderId(existingOrders), track |-> trackNumber]
  IN  [withClient EXCEPT ![k].orders = Append(existingOrders, order)]

\* the loop `for (let i = 1; i < rows.length; i++)`; i is the 1-based index
RECURSIVE ExtractFrom(_, _, _, _)
ExtractFrom(rows, i, clientMap, storage) ==
  IF i > Len(rows) THEN storage
  ELSE IF RowSkipped(rows[i], clientMap)
       THEN ExtractFrom(rows, i + 1, clientMap, storage)
       ELSE ExtractFrom(rows, i + 1, clientMap,
                        AddOrder(storage, Trim(rows[i].code), clientMap,
                                 Trim(rows[i].track)))

\* processOrders: a failed values.get or an exception of the loop is caught
\* and yields {}
processOrders(fetchOk, rows, clientMap) ==
  IF ~fetchOk THEN <<>>
  ELSE IF Len(rows) = 0 THEN <<>>
  ELSE IF LoopThrows(rows, clientMap) THEN <<>>
  ELSE ExtractFrom(rows, 2, clientMap, <<>>)

RECURSIVE SkippedFrom(_, _, _)
SkippedFrom(rows, i, clientMap) ==
  IF i > Len(rows) THEN 0
  ELSE (IF RowSkipped(rows[i], clientMap) THEN 1 ELSE 0)
       + SkippedFrom(rows, i + 1, clientMap)

\* the tracking numbers of the extracted orders
RECURSIVE TracksOf(_)
TracksOf(storage) ==
  IF Len(storage) = 0 THEN {}
  ELSE {Head(storage).orders[i].track : i \in 1..Len(Head(storage).orders)}
       \cup TracksOf(Tail(storage))

RECURSIVE OrderCount(_)
OrderCount(storage) ==
  IF Len(storage) = 0 THEN 0
  ELSE Len(Head(storage).orders) + OrderCount(Tail(storage))

----------------------------------------------------------------------------
(* Numeric cells of a row: weight (column 5) and price (column 8)          *)

\* the characters of a cell text: digits, both separators, a letter, a blank
Digits == {"0", "2", "5"}
CellTexts == SeqsUpTo(Digits \cup {",", ".", "a", " "}, MaxLen)

\* String.prototype.trim on a text
RECURSIVE TrimText(_)
TrimText(s) ==
  IF Len(s) > 0 /\ Head(s) = " " THEN TrimText(Tail(s))
  ELSE IF Len(s) > 0 /\ s[Len(s)] = " "
       THEN TrimText(SubSeq(s, 1, Len(s) - 1))
       ELSE s

\* s.replace(",", "."): the first comma only
RECURSIVE ReplaceComma(_)
ReplaceComma(s) ==
  IF Len(s) = 0 THEN s
  ELSE IF Head(s) = "," THEN <<".">> \o Tail(s)
       ELSE <<Head(s)>> \o ReplaceComma(Tail(s))

\* the longest prefix of digits
RECURSIVE DigitPrefix(_)
DigitPrefix(s) ==
  IF Len(s) > 0 /\ Head(s) \in Digits
  THEN <<Head(s)>> \o DigitPrefix(Tail(s))
  ELSE <<>>

RECURSIVE DigitsValue(_)
DigitsValue(ds) ==
  IF Len(ds) = 0 THEN 0
  ELSE LET c == ds[Len(ds)]
       IN  10 * DigitsValue(SubSeq(ds, 1, Len(ds) - 1))
           + (CASE c = "0" -> 0 [] c = "2" -> 2 [] c = "5" -> 5)

\* a decimal number mantissa / 10^scale without trailing zeros
RECURSIVE Decimal(_, _)
Decimal(mantissa, scale) ==
  IF scale > 0 /\ mantissa % 10 = 0 THEN Decimal(mantissa \div 10, scale - 1)
  ELSE [kind |-> "number", mantissa |-> mantissa, scale |-> scale]

NaN == [kind |-> "NaN", mantissa |-> 0, scale |-> 0]
Null == [kind |-> "null", mantissa |-> 0, scale |-> 0]

\* parseFloat: the longest prefix that is a decimal literal, NaN when there
\* is none
parseFloat(s) ==
  LET int == DigitPrefix(s)
      rest == SubSeq(s, Len(int) + 1, Len(s))
      frac == IF Len(rest) > 0 /\ Head(rest) = "." THEN DigitPrefix(Tail(rest))
              ELSE <<>>
  IN  IF Len(int) = 0 /\ Len(frac) = 0 THEN NaN
      ELSE Decimal(DigitsValue(int \o frac), Len(frac))

\* row[k] ? row[k].toString().trim() : "" and then
\* text ? parseFloat(text.replace(",", ".")) : null
NumericCell(text) ==
  LET trimmed == IF Len(text) = 0 THEN <<>> ELSE TrimText(text)
  IN  IF Len(trimmed) = 0 THEN Null ELSE parseFloat(ReplaceComma(trimmed))

----------------------------------------------------------------------------
(* Deduplication filter of processAndSendSheetData                         *)

\* a test that takes every order for new
IsNewAlways(order, sentTrackingNumbers) == TRUE

\* the test `!sentTrackingNumbers.has(trackingNumber)`
IsNew(order, sentTrackingNumbers) == order.track \notin sentTrackingNumbers

RECURSIVE KeepNew(_, _)
KeepNew(orders, sentTrackingNumbers) ==
  IF Len(orders) = 0 THEN <<>>
  ELSE IF IsNew(Head(orders), sentTrackingNumbers)
       THEN <<Head(orders)>> \o KeepNew(Tail(orders), sentTrackingNumbers)
       ELSE KeepNew(Tail(orders), sentTrackingNumbers)

RECURSIVE NewToSend(_, _)
NewToSend(storage, sentTrackingNumbers) ==
  IF Len(storage) = 0 THEN <<>>
  ELSE LET newOrders == KeepNew(Head(storage).orders, sentTrackingNumbers)
           rest == NewToSend(Tail(storage), sentTrackingNumbers)
       IN  IF Len(newOrders) > 0
           THEN <<[Head(storage) EXCEPT !.orders = newOrders]>> \o rest
           ELSE rest

\* a count of the distinct new tracking numbers
NewCountDistinct(storage, sentTrackingNumbers) ==
  Cardinality(TracksOf(NewToSend(storage, sentTrackingNumbers)))

\* newCount++ for every order kept as new
NewCount(storage, sentTrackingNumbers) ==
  OrderCount(NewToSend(storage, sentTrackingNumbers))

\* alreadySentCount++ for every order whose tracking number is in the set
RECURSIVE AlreadySentCount(_, _)
AlreadySentCount(storage, sentTrackingNumbers) ==
  IF Len(storage) = 0 THEN 0
  ELSE Cardinality({i \in 1..Len(Head(storage).orders) :
                      ~IsNew(Head(storage).orders[i], sentTrackingNumbers)})
       + AlreadySentCount(Tail(storage), sentTrackingNumbers)

\* newTrackingNumbers: one entry per new order, client by client
RECURSIVE NewTrackingNumbers(_)
NewTrackingNumbers(newToSend) ==
  IF Len(newToSend) = 0 THEN <<>>
  ELSE [i \in 1..Len(Head(newToSend).orders) |-> Head(newToSend).orders[i].track]
       \o NewTrackingNumbers(Tail(newToSend))

\* clientData: parallel to newTrackingNumbers
RECURSIVE ClientDataOf(_)
ClientDataOf(newToSend) ==
  IF Len(newToSend) = 0 THEN <<>>
  ELSE [i \in 1..Len(Head(newToSend).orders) |->
          [name |-> Head(newToSend).name, phone |-> Head(newToSend).phone]]
       \o ClientDataOf(Tail(newToSend))

----------------------------------------------------------------------------
(* WhatsApp service: sendBulkOrderNotifications and what it calls           *)

\* the `orders` array built by sendWhatsAppNotifications
RECURSIVE BulkOrders(_)
BulkOrders(data) ==
  IF Len(data) = 0 THEN <<>>
  ELSE [i \in 1..Len(Head(data).orders) |->
          [fullName       |-> Head(data).name,
           phoneNumber    |-> Head(data).phone,
           pickupPoint    |-> Head(data).pickup,
           trackingNumber |-> Head(data).orders[i].track]]
       \o BulkOrders(Tail(data))

\* x || d of JavaScript on strings
OrDefault(x, d) == IF x = "" THEN d ELSE x

\* extractOrdersFromWebhookData of the webhook route
RECURSIVE extractOrdersFromWebhookData(_)
extractOrdersFromWebhookData(data) ==
  IF Len(data) = 0 THEN <<>>
  ELSE [i \in 1..Len(Head(data).orders) |->
          [fullName       |-> OrDefault(Head(data).name, "Client"),
           phoneNumber    |-> OrDefault(Head(data).phone, ""),
           pickupPoint    |-> OrDefault(Head(data).pickup, "none"),
           trackingNumber |-> OrDefault(Head(data).orders[i].track, "none")]]
       \o extractOrdersFromWebhookData(Tail(data))

RECURSIVE GroupIndex(_, _, _)
GroupIndex(list, key, i) ==
  IF i > Len(list) THEN 0
  ELSE IF list[i].phoneNumber = key THEN i ELSE GroupIndex(list, key, i + 1)

\* clientOrdersMap: orders grouped by phone number, in insertion order
RECURSIVE GroupByPhone(_, _)
GroupByPhone(orders, list) ==
  IF Len(orders) = 0 THEN list
  ELSE LET order == Head(orders)
           withKey ==
             IF GroupIndex(list, order.phoneNumber, 1) = 0
             THEN Append(list, [fullName    |-> order.fullName,
                                phoneNumber |-> order.phoneNumber,
                                pickupPoint |-> order.pickupPoint,
                                orders      |-> <<>>])
             ELSE list
           k == GroupIndex(withKey, order.phoneNumber, 1)
       IN  GroupByPhone(Tail(orders),
                        [withKey EXCEPT ![k].orders = Append(@, order.trackingNumber)])

ClientOrdersList(orders) == GroupByPhone(orders, <<>>)

\* sendMessage: false without a request when the gateway is not configured,
\* false when the request fails, times out or throws
sendMessage(gatewayConfigured, outcome) ==
  IF ~gatewayConfigured THEN FALSE ELSE outcome = "ok"

\* sendClientOrdersNotification: no phone number, no send
sendClientOrdersNotification(gatewayConfigured, clientOrders, outcome) ==
  IF clientOrders.phoneNumber = "" THEN FALSE
  ELSE sendMessage(gatewayConfigured, outcome)

\* a request reaches the messaging gateway for this client
GatewayRequested(gatewayConfigured, clientOrders) ==
  clientOrders.phoneNumber # "" /\ gatewayConfigured

\* {sent, failed} computed from the values processBatch returned
BulkResult(clientOrdersList, results) ==
  LET sent == Cardinality({i \in 1..Len(results) : results[i] = TRUE})
  IN  [sent |-> sent, failed |-> Len(clientOrdersList) - sent]

\* value of a settled processor promise, as results.filter(Boolean) sees it
SettledValue(b) == IF b THEN "true" ELSE "false"

\* the requests one sendBulkOrderNotifications call makes to the gateway,
\* in the order of the client list; results[i] is what the send of client i
\* returned
RequestsOf(gatewayConfigured, clientOrdersList, via, results) ==
  LET all == [i \in 1..Len(clientOrdersList) |->
                [phone  |-> clientOrdersList[i].phoneNumber,
                 tracks |-> Range(clientOrdersList[i].orders),
                 via    |-> via,
                 ok     |-> IF via = "direct" THEN SettledValue(results[i])
                            ELSE "na",
                 posted |-> GatewayRequested(gatewayConfigured,
                                             clientOrdersList[i])]]
  IN  SelectSeq(all, LAMBDA q : q.posted)

----------------------------------------------------------------------------
(* Totals of the consolidated message: createMultipleOrdersMessage         *)

\* a weight or a price of an order: null, or a number held in tenths
NoAmount == [kind |-> "null", tenths |-> 0]
Amount(tenths) == [kind |-> "number", tenths |-> tenths]
Weights == {NoAmount, Amount(0), Amount(10), Amount(25)}
Prices == {NoAmount, Amount(10)}

\* x || 0 of JavaScript on number | null
OrZero(x) == IF x.kind = "number" /\ x.tenths # 0 THEN x.tenths ELSE 0

\* orders.reduce((sum, order) => sum + (order.field || 0), 0)
RECURSIVE Total(_)
Total(values) ==
  IF Len(values) = 0 THEN 0 ELSE OrZero(Head(values)) + Total(Tail(values))

\* total > 0 ? `${total} unit` : "not specified"
TotalText(total) ==
  IF total > 0 THEN [kind |-> "amount", tenths |-> total]
  ELSE [kind |-> "notSpecified", tenths |-> 0]

IdleMessage ==
  [called |-> FALSE, orders |-> <<>>,
   totalWeightText |-> TotalText(0), totalPriceText |-> TotalText(0)]

----------------------------------------------------------------------------
(* Phone normalisation: formatPhoneNumber                                  *)

\* phoneNumber.replace(/[\s\-\(\)]/g, "")
Punctuation == {" ", "-", "(", ")"}
Cleaned(phoneNumber) == SelectSeq(phoneNumber, LAMBDA c : c \notin Punctuation)

\* s.startsWith(prefix)
StartsWith(s, prefix) ==
  Len(s) >= Len(prefix) /\ SubSeq(s, 1, Len(prefix)) = prefix

CountryCode == <<"9", "9", "6">>
ChatSuffix == <<"@c.us">>

\* formatPhoneNumber: the local branch and the default return the same id
formatPhoneNumber(phoneNumber) ==
  LET cleaned == Cleaned(phoneNumber)
  IN  IF StartsWith(cleaned, CountryCode) THEN cleaned \o ChatSuffix
      ELSE IF StartsWith(cleaned, <<"+">> \o CountryCode)
      THEN Tail(cleaned) \o ChatSuffix
      ELSE CountryCode \o cleaned \o ChatSuffix

IdlePhone ==
  [called |-> FALSE, local |-> <<>>, style |-> "none", input |-> <<>>,
   chatId |-> <<>>]

----------------------------------------------------------------------------
(* RequestQueue: named queues of operations                                *)

QueueNames == {"q1", "q2"}
Operations == 1..MaxOps

\* the state of the class: the two static maps, the operations the callers
\* have enqueued (numbered in the order of the enqueue calls) and the
\* setImmediate callbacks that wait for their turn; names and calls are the
\* queue names the callers use and the number of calls they make, throwing
\* the operations that throw
IdleQueues ==
  [queues     |-> [q \in QueueNames |-> <<>>],
   processing |-> [q \in QueueNames |-> FALSE],
   batch      |-> [q \in QueueNames |-> <<>>],
   passes     |-> [q \in QueueNames |-> 0],
   scheduled  |-> [q \in QueueNames |-> 0],
   started    |-> [q \in QueueNames |-> <<>>],
   enqueued   |-> 0,
   name       |-> [op \in Operations |-> "none"],
   status     |-> [op \in Operations |-> "none"],
   starts     |-> [op \in Operations |-> 0],
   throwing   |-> {},
   names      |-> {},
   calls      |-> 0]

\* a guard that never finds the queue busy
AlreadyProcessingNever(s, queueName) == FALSE

\* `if (this.processing.get(queueName)) return`
AlreadyProcessing(s, queueName) == s.processing[queueName]

\* a batch of the whole queue
BatchSizeOfAll(length) == length

\* queue.splice(0, this.MAX_CONCURRENT) takes this many operations
BatchSizeOf(length) == IF length < MAX_CONCURRENT THEN length ELSE MAX_CONCURRENT

\* a pass that never schedules another one
MoreItemsNever(length) == FALSE

\* `if (queue.length > 0)` after the batch has settled
MoreItems(length) == length > 0

\* processQueue up to its await: the batch is cut from the front of the
\* queue and every operation of it is started, in order
processQueue(s, queueName) ==
  LET queue == s.queues[queueName]
      k == BatchSizeOf(Len(queue))
      batch == SubSeq(queue, 1, k)
  IN  IF AlreadyProcessing(s, queueName) THEN s
      ELSE IF Len(queue) = 0 THEN s
      ELSE [s EXCEPT
              !.processing[queueName] = TRUE,
              !.queues[queueName] = SubSeq(queue, k + 1, Len(queue)),
              !.batch[queueName] = batch,
              !.passes[queueName] = @ + 1,
              !.started[queueName] = @ \o batch,
              !.status = [op \in Operations |->
                            IF op \in Range(batch) THEN "running" ELSE @[op]],
              !.starts = [op \in Operations |->
                            IF op \in Range(batch) THEN @[op] + 1 ELSE @[op]]]

----------------------------------------------------------------------------
(* RateLimiter: webhookLimiter as the webhook route applies it             *)

\* client ids: `${ip}-${userAgent.slice(0, 50)}`
ClientIds == {"ip1-agent", "ip2-agent"}

NoEntry == [present |-> FALSE, count |-> 0, resetTime |-> 0]

\* a window that is over at its reset time already
ExpiredAtReset(entry, now) == ~entry.present \/ entry.resetTime <= now

\* `!this.store[clientId] || this.store[clientId].resetTime < now`
Expired(entry, now) == ~entry.present \/ entry.resetTime < now

\* the store after check(request) of the client at time now
StoreAfterCheck(store, clientId, now) ==
  IF Expired(store[clientId], now)
  THEN [store EXCEPT ![clientId] =
          [present |-> TRUE, count |-> 1, resetTime |-> now + WindowTicks]]
  ELSE [store EXCEPT ![clientId].count = @ + 1]

\* what check(request) returns
CheckResult(store, clientId, now) ==
  LET entry == StoreAfterCheck(store, clientId, now)[clientId]
  IN  IF Expired(store[clientId], now)
      THEN [allowed |-> TRUE, remaining |-> WEBHOOK_MAX_REQUESTS - 1,
            resetTime |-> entry.resetTime]
      ELSE [allowed |-> entry.count <= WEBHOOK_MAX_REQUESTS,
            remaining |-> IF WEBHOOK_MAX_REQUESTS - entry.count > 0
                          THEN WEBHOOK_MAX_REQUESTS - entry.count ELSE 0,
            resetTime |-> entry.resetTime]

\* cleanup(): the expired entries are deleted
StoreAfterCleanup(store, now) ==
  [c \in ClientIds |->
     IF store[c].present /\ store[c].resetTime < now THEN NoEntry ELSE store[c]]

\* the bodies of a webhook POST: order data, a test payload, not JSON
PostBodies == {"orders", "test", "invalid"}

\* the response of the route to a POST the limiter has checked, and the
\* bulk sends the handler has made for it
PostOutcome(result, body) ==
  IF ~result.allowed THEN [status |-> 429, sends |-> 0]
  ELSE IF body = "invalid" THEN [status |-> 500, sends |-> 0]
  ELSE IF body = "orders" THEN [status |-> 200, sends |-> 1]
  ELSE [status |-> 200, sends |-> 0]

\* the limiter, the clock, and for every client the window as the calls
\* define it: the reset time of the window its last call fell in and the
\* position of that call among the calls of the window
IdleLimiter ==
  [store |-> [c \in ClientIds |-> NoEntry],
   now   |-> 0,
   posts |-> 0,
   window |-> [c \in ClientIds |-> [open |-> FALSE, resetTime |-> 0, position |-> 0]],
   last  |-> [clientId |-> "none", allowed |-> TRUE, remaining |-> 0,
              resetTime |-> 0, status |-> 0, sends |-> 0]]

----------------------------------------------------------------------------
(* Tracking ledger: DatabaseService                                        *)

\* newNumbers of addTrackingNumbers: the input without the existing numbers
RECURSIVE FilterNumbers(_, _)
FilterNumbers(trackingNumbers, existingNumbers) ==
  IF Len(trackingNumbers) = 0 THEN <<>>
  ELSE IF Head(trackingNumbers) \notin existingNumbers
       THEN <<Head(trackingNumbers)>>
            \o FilterNumbers(Tail(trackingNumbers), existingNumbers)
       ELSE FilterNumbers(Tail(trackingNumbers), existingNumbers)

\* data of addTrackingNumbers: clientData is indexed by the position in
\* newNumbers; x || null maps a missing or empty value to null
OrNull(x) == IF x = "" THEN "null" ELSE x

InsertData(newNumbers, clientData) ==
  [index \in 1..Len(newNumbers) |->
     [trackingNumber |-> newNumbers[index],
      clientName  |-> IF index <= Len(clientData)
                      THEN OrNull(clientData[index].name) ELSE "null",
      phoneNumber |-> IF index <= Len(clientData)
                      THEN OrNull(clientData[index].phone) ELSE "null"]]

\* the tracking numbers of the rows of the table
TableNumbers(table) == {table[i].trackingNumber : i \in 1..Len(table)}

\* an insert that skips no row
SkipsDuplicateNever(table, row) == FALSE

\* skipDuplicates over the unique trackingNumber: the row is left out when a
\* row with its tracking number exists
SkipsDuplicate(table, row) == row.trackingNumber \in TableNumbers(table)

\* createMany with skipDuplicates: a row whose unique key exists is skipped
RECURSIVE createMany(_, _)
createMany(table, data) ==
  IF Len(data) = 0 THEN table
  ELSE LET row == Head(data)
           inserted ==
             IF SkipsDuplicate(table, row) THEN table
             ELSE Append(table, row)
       IN  createMany(inserted, Tail(data))

EmptyTable == <<>>

\* loadSentTrackingNumbers: a failed read is caught and yields the empty set
loadSentTrackingNumbers(table, readOk) ==
  IF readOk THEN TableNumbers(table) ELSE {}

----------------------------------------------------------------------------
(* Result messages of processAndSendSheetData                              *)

Message(kind) ==
  [kind |-> kind, newCount |-> 0, alreadySentCount |-> 0,
   whatsapp |-> "none", waCount |-> 0, waTotal |-> 0,
   webhook |-> "none", available |-> <<>>]

\* notificationMessage built from whatsappResult and sendResult
NotificationMessage(whatsappResult, sendResult) ==
  LET wa == IF whatsappResult.sent > 0
            THEN [whatsapp |-> "sent", waCount |-> whatsappResult.sent,
                  waTotal  |-> whatsappResult.sent + whatsappResult.failed]
            ELSE [whatsapp |-> "failed", waCount |-> whatsappResult.failed,
                  waTotal  |-> 0]
  IN  [whatsapp |-> wa.whatsapp, waCount |-> wa.waCount, waTotal |-> wa.waTotal,
       webhook  |-> IF sendResult.success THEN "sent" ELSE "none"]

ProcessedMessage(newCount, alreadySentCount, notificationMessage) ==
  [Message("processed") EXCEPT
     !.newCount = newCount, !.alreadySentCount = alreadySentCount,
     !.whatsapp = notificationMessage.whatsapp,
     !.waCount = notificationMessage.waCount,
     !.waTotal = notificationMessage.waTotal,
     !.webhook = notificationMessage.webhook]

NothingNewMessage(alreadySentCount) ==
  [Message("nothingNew") EXCEPT !.alreadySentCount = alreadySentCount]

\* the not-found message without the titles
NotFoundMessageBare(sheetsList) == Message("notFound")

NotFoundMessage(sheetsList) ==
  [Message("notFound") EXCEPT !.available = sheetsList]

NoResult == [success |-> FALSE, message |-> Message("none")]

----------------------------------------------------------------------------
(* State                                                                   *)

VARIABLES
  env,             \* process environment
  ledger,          \* table sentTrackingNumber: its rows
  processedSheets, \* table processedSheet: sheetName -> processedAt
  run,             \* the invocations of processAndSendSheetData
  source,          \* the spreadsheets: edited freely, or left as they are
  bp,              \* one BatchProcessor.processBatch call of the bulk sender
  px,              \* one processOrders call on its own
  cell,            \* one numeric cell of a row on its own
  msg,             \* one createMultipleOrdersMessage call on its own
  phone,           \* one formatPhoneNumber call on its own
  rq,              \* the queues of RequestQueue and their operations
  rl               \* the webhook rate limiter and the POSTs it has checked

vars == <<env, ledger, processedSheets, run, source, bp, px, cell, msg, phone, rq, rl>>

Runs == 1..MaxRuns

IdleRun ==
  [pc |-> "idle", selectedSheet |-> "", startLedger |-> {},
   sentTrackingNumbers |-> {}, clientMap |-> EmptyMap, storage |-> <<>>,
   newToSend |-> <<>>, newCount |-> 0, alreadySentCount |-> 0,
   newTrackingNumbers |-> <<>>, clientData |-> <<>>,
   clientOrdersList |-> <<>>,
   whatsappResult |-> [sent |-> 0, failed |-> 0],
   sendResult |-> [success |-> FALSE, message |-> "none"],
   notificationMessage |-> NotificationMessage([sent |-> 0, failed |-> 0],
                                               [success |-> FALSE]),
   newNumbers |-> <<>>,
   sheetCalls |-> 0, readCalls |-> 0,
   requests |-> <<>>, webhookPosts |-> 0, addCalls |-> 0, createCalls |-> 0,
   persisted |-> FALSE, markerCalls |-> 0, marked |-> FALSE, extracted |-> {}, covered |-> {},
   result |-> NoResult]

\* the notify-and-persist branch also taken when nothing is new
HasNewOrdersAlways(newCount) == newCount >= 0

\* the test `if (newCount > 0)` that opens the notify-and-persist branch
HasNewOrders(newCount) == newCount > 0

\* a failed upsert that is not caught
saveProcessedSheetRethrows(upsertOk) == ~upsertOk

\* DatabaseService.saveProcessedSheet catches a failed upsert: the caller
\* never sees an exception
saveProcessedSheetThrows(upsertOk) == FALSE

\* what is left of an invocation once it has returned and a later one starts
Past(rec) ==
  [IdleRun EXCEPT !.pc = "past",
                  !.covered = IF rec.persisted THEN rec.extracted ELSE {}]

Returned(r) == run[r].pc \in {"done", "failed", "past", "threw"}

IdleExtract ==
  [called |-> FALSE, rows |-> <<>>, clientMap |-> EmptyMap, storage |-> <<>>,
   skippedOrders |-> 0, caught |-> FALSE]

IdleCell == [field |-> "none", text |-> <<>>, value |-> Null]

IdleBatch ==
  [active |-> FALSE, items |-> <<>>, status |-> <<>>, attempts |-> <<>>,
   next |-> 1, returned |-> FALSE, result |-> [sent |-> 0, failed |-> 0]]

\* the spreadsheets change between any two reads
FreeSource == [fixed |-> FALSE, rows |-> <<>>, clientMap |-> EmptyMap]

\* the spreadsheets keep the given rows and client directory
FixedSource(rows, clientMap) ==
  [fixed |-> TRUE, rows |-> rows, clientMap |-> clientMap]

Init ==
  /\ env \in Envs
  /\ ledger = EmptyTable
  /\ processedSheets = [n \in {} |-> 0]
  /\ run = [r \in Runs |-> IdleRun]
  /\ source = FreeSource
  /\ bp = IdleBatch
  /\ px = IdleExtract
  /\ cell = IdleCell
  /\ msg = IdleMessage
  /\ phone = IdlePhone
  /\ rq = IdleQueues
  /\ rl = IdleLimiter

Return(r, pc, success, text) ==
  [run EXCEPT ![r].pc = pc,
              ![r].result = [success |-> success, message |-> text]]

\* an exception that leaves processAndSendSheetData
rethrowError(r) == [run EXCEPT ![r].pc = "threw"]

\* the catch of processAndSendSheetData: whatever is thrown inside becomes
\* {success: false, message: `Error: ...`}
catchError(r) == Return(r, "failed", FALSE, Message("error"))

\* what sendToServer returns: the POST was answered with a 2xx status, was
\* answered with an error status, or got no response
sendToServer(wh) ==
  CASE wh = "ok" -> [success |-> TRUE, message |-> "sent"]
    [] wh = "rateLimited" -> [success |-> FALSE, message |-> "webhookError"]
    [] OTHER -> [success |-> FALSE, message |-> "noResponse"]

\* WEBHOOK_URL, computed at module load: the base address, or the local
\* default when NEXTAUTH_URL is not set, followed by the route
WEBHOOK_URL(nextAuthUrl) ==
  <<OrDefault(nextAuthUrl, "http://localhost:3001"), "/api/webhooks/googleSheets">>

\* the test `!WEBHOOK_URL || WEBHOOK_URL.trim() === ""` fails
WebhookConfigured(url) == \E i \in 1..Len(url) : Trim(url[i]) # ""

\* sendToServer lets the failed POST escape when nothing answered
sendToServerRaisesNoResponse(wh) == wh = "unreachable"

\* sendToServer returns from every branch of its catch: it never raises
sendToServerRaises(wh) == FALSE

\* earlier invocations have returned; their locals are gone
Archive(r) ==
  [q \in Runs |-> IF q = r - 1 THEN Past(run[q])
                  ELSE IF q < r THEN [IdleRun EXCEPT !.pc = "past"]
                  ELSE run[q]]

----------------------------------------------------------------------------
(* processAndSendSheetData, one action per awaited step                    *)

\* the input validation of invocation r, entered with the invocations base
Validate(base, r, selectedSheet) ==
  LET entered == [base EXCEPT ![r].selectedSheet = selectedSheet,
                              ![r].startLedger = TableNumbers(ledger)]
      fail(kind) == [entered EXCEPT ![r].pc = "failed",
                       ![r].result = [success |-> FALSE,
                                      message |-> Message(kind)]]
  IN  IF selectedSheet = "" \/ Trim(selectedSheet) = ""
      THEN fail("sheetRequired")
      ELSE IF ~env.spreadsheetId THEN fail("noSpreadsheetId")
      ELSE IF ~env.sheets THEN fail("noAuth")
      ELSE [entered EXCEPT ![r].pc = "fetching"]

\* entry and input validation, up to `await sheets.spreadsheets.get`
Start(r, selectedSheet) ==
  /\ run[r].pc = "idle"
  /\ \A q \in Runs : q < r => Returned(q)
  /\ run' = Validate(Archive(r), r, selectedSheet)
  /\ UNCHANGED <<env, ledger, processedSheets, source, bp, px, cell, msg, phone, rq, rl>>

\* the same entry while another invocation may still be running
StartConcurrently(r, selectedSheet) ==
  /\ run[r].pc = "idle"
  /\ run' = Validate(run, r, selectedSheet)
  /\ UNCHANGED <<env, ledger, processedSheets, source, bp, px, cell, msg, phone, rq, rl>>

\* sheets.spreadsheets.get and the search for the selected sheet
FetchSheets(r, getOk) ==
  /\ run[r].pc = "fetching"
  /\ LET sheetsList == SheetTitles
         found == \E i \in 1..Len(sheetsList) : sheetsList[i] = run[r].selectedSheet
         next == IF ~getOk THEN catchError(r)
                 ELSE IF ~found
                 THEN Return(r, "failed", FALSE, NotFoundMessage(sheetsList))
                 ELSE [run EXCEPT ![r].pc = "loading"]
     IN  run' = [next EXCEPT ![r].sheetCalls = @ + 1]
  /\ UNCHANGED <<env, ledger, processedSheets, source, bp, px, cell, msg, phone, rq, rl>>

\* const sentTrackingNumbers = await loadSentTrackingNumbers()
LoadSent(r, readOk) ==
  /\ run[r].pc = "loading"
  /\ run' = [run EXCEPT ![r].pc = "clientMap",
                         ![r].readCalls = @ + 1,
                         ![r].sentTrackingNumbers =
                            loadSentTrackingNumbers(ledger, readOk)]
  /\ UNCHANGED <<env, ledger, processedSheets, source, bp, px, cell, msg, phone, rq, rl>>

\* const clientMap = await buildClientMap(); {} when the directory read fails
BuildClientMap(r, clientMap) ==
  /\ run[r].pc = "clientMap"
  /\ source.fixed => clientMap \in {source.clientMap, EmptyMap}
  /\ run' = [run EXCEPT ![r].pc = "extracting", ![r].clientMap = clientMap,
                         ![r].sheetCalls = @ + 1]
  /\ UNCHANGED <<env, ledger, processedSheets, source, bp, px, cell, msg, phone, rq, rl>>

\* await processOrders, the filter and the preparation of the ledger input,
\* up to `await sendWhatsAppNotifications`
ProcessOrders(r, fetchOk, rows) ==
  /\ run[r].pc = "extracting"
  /\ source.fixed => rows = source.rows
  /\ LET storage == processOrders(fetchOk, rows, run[r].clientMap)
         sentSet == run[r].sentTrackingNumbers
         newToSend == NewToSend(storage, sentSet)
         newCount == NewCount(storage, sentSet)
         alreadySentCount == AlreadySentCount(storage, sentSet)
         filtered == [run EXCEPT ![r].storage = storage,
                                 ![r].sheetCalls = @ + 1,
                                 ![r].clientMap = EmptyMap,
                                 ![r].extracted = TracksOf(storage),
                                 ![r].newToSend = newToSend,
                                 ![r].newCount = newCount,
                                 ![r].alreadySentCount = alreadySentCount]
     IN  run' = IF Len(storage) = 0
                THEN [Return(r, "failed", FALSE, Message("noValidOrders"))
                        EXCEPT ![r].sheetCalls = @ + 1]
                ELSE IF HasNewOrders(newCount)
                THEN [filtered EXCEPT
                        ![r].pc = "notifying",
                        ![r].newTrackingNumbers = NewTrackingNumbers(newToSend),
                        ![r].clientData = ClientDataOf(newToSend)]
                ELSE [filtered EXCEPT
                        ![r].pc = "done",
                        ![r].result = [success |-> TRUE,
                                       message |-> NothingNewMessage(alreadySentCount)]]
  /\ UNCHANGED <<env, ledger, processedSheets, source, bp, px, cell, msg, phone, rq, rl>>

\* await sendWhatsAppNotifications(newToSend): every client of the list is
\* sent to, outcome[i] is what the gateway does with the request of client i
SendWhatsAppNotifications(r, outcome) ==
  /\ run[r].pc = "notifying"
  /\ LET list == ClientOrdersList(BulkOrders(run[r].newToSend))
         results == [i \in 1..Len(list) |->
                       sendClientOrdersNotification(env.gateway, list[i], outcome[i])]
     IN  /\ DOMAIN outcome = 1..Len(list)
         /\ run' = [run EXCEPT
                      ![r].pc = "webhook",
                      ![r].clientOrdersList = list,
                      ![r].whatsappResult = BulkResult(list, results),
                      ![r].requests = @ \o RequestsOf(env.gateway, list, "direct", results)]
  /\ UNCHANGED <<env, ledger, processedSheets, source, bp, px, cell, msg, phone, rq, rl>>

\* await sendToServer(newToSend): POST to WEBHOOK_URL, the googleSheets
\* webhook route of this application, whose handler sends the bulk
\* notifications for the payload it receives
WebhookOutcomes == {"unreachable", "rateLimited", "ok"}

SendToServer(r, wh, outcome) ==
  /\ run[r].pc = "webhook"
  /\ LET orders == extractOrdersFromWebhookData(run[r].newToSend)
         list == ClientOrdersList(orders)
         configured == WebhookConfigured(WEBHOOK_URL(env.nextAuthUrl))
         handled == configured /\ wh = "ok"
         results == [i \in 1..Len(list) |->
                       sendClientOrdersNotification(env.gateway, list[i], outcome[i])]
         sendResult == IF configured THEN sendToServer(wh)
                       ELSE [success |-> TRUE, message |-> "noWebhook"]
     IN  /\ DOMAIN outcome = 1..Len(list)
         /\ run' = IF configured /\ sendToServerRaises(wh)
                    THEN [catchError(r) EXCEPT ![r].webhookPosts = @ + 1]
                    ELSE
                    [run EXCEPT
                      ![r].pc = "persistLoad",
                      ![r].webhookPosts = IF configured THEN @ + 1 ELSE @,
                      ![r].sendResult = sendResult,
                      ![r].notificationMessage =
                         NotificationMessage(run[r].whatsappResult, sendResult),
                      ![r].requests =
                         IF handled /\ Len(orders) > 0
                         THEN @ \o RequestsOf(env.gateway, list, "webhook", results)
                         ELSE @]
  /\ UNCHANGED <<env, ledger, processedSheets, source, bp, px, cell, msg, phone, rq, rl>>

\* addTrackingNumbers, first half: read the existing numbers and filter
AddTrackingNumbersLoad(r, readOk) ==
  /\ run[r].pc = "persistLoad"
  /\ LET existingNumbers == loadSentTrackingNumbers(ledger, readOk)
         newNumbers == FilterNumbers(run[r].newTrackingNumbers, existingNumbers)
     IN  run' = [run EXCEPT
                   ![r].pc = IF Len(newNumbers) = 0 THEN "saveSheet"
                             ELSE "persistWrite",
                   ![r].addCalls = @ + 1,
                   ![r].readCalls = @ + 1,
                   ![r].newNumbers = newNumbers]
  /\ UNCHANGED <<env, ledger, processedSheets, source, bp, px, cell, msg, phone, rq, rl>>

\* addTrackingNumbers, second half: createMany; a failure is caught
AddTrackingNumbersWrite(r, writeOk) ==
  /\ run[r].pc = "persistWrite"
  /\ ledger' = IF writeOk
               THEN createMany(ledger, InsertData(run[r].newNumbers,
                                                  run[r].clientData))
               ELSE ledger
  /\ run' = [run EXCEPT ![r].pc = "saveSheet",
                         ![r].createCalls = @ + 1,
                         ![r].persisted = writeOk]
  /\ UNCHANGED <<env, processedSheets, source, bp, px, cell, msg, phone, rq, rl>>

\* saveStorageData (a no-op), saveLastProcessedSheet and the final return
SaveProcessedSheet(r, upsertOk) ==
  /\ run[r].pc = "saveSheet"
  /\ processedSheets' =
       IF upsertOk
       THEN [n \in DOMAIN processedSheets \cup {run[r].selectedSheet} |->
               IF n = run[r].selectedSheet THEN r ELSE processedSheets[n]]
       ELSE processedSheets
  /\ run' = IF saveProcessedSheetThrows(upsertOk)
            THEN [catchError(r) EXCEPT ![r].markerCalls = @ + 1,
                                       ![r].marked = upsertOk]
            ELSE [Return(r, "done", TRUE,
                         ProcessedMessage(run[r].newCount, run[r].alreadySentCount,
                                          run[r].notificationMessage))
                    EXCEPT ![r].markerCalls = @ + 1, ![r].marked = upsertOk]
  /\ UNCHANGED <<env, ledger, source, bp, px, cell, msg, phone, rq, rl>>

\* DatabaseService.cleanupOldData: the processed-sheet markers (and the
\* webhook logs) older than the cutoff are deleted; a failure is caught
cleanupOldData(cutoff, deleteOk) ==
  /\ processedSheets' =
       IF deleteOk
       THEN [n \in {m \in DOMAIN processedSheets : processedSheets[m] >= cutoff}
               |-> processedSheets[n]]
       ELSE processedSheets
  /\ UNCHANGED <<env, ledger, run, source, bp, px, cell, msg, phone, rq, rl>>

OutcomeVectors == UNION {[1..k -> GatewayOutcomes] : k \in 0..MaxRows}

\* the steps of invocation r
Invocation(r) ==
  \/ \E selectedSheet \in SheetNames : Start(r, selectedSheet)
  \/ \E getOk \in BOOLEAN : FetchSheets(r, getOk)
  \/ \E readOk \in BOOLEAN : LoadSent(r, readOk)
  \/ \E clientMap \in ClientDirs \cup {EmptyMap} : BuildClientMap(r, clientMap)
  \/ \E fetchOk \in BOOLEAN, rows \in SheetContents :
        ProcessOrders(r, fetchOk, rows)
  \/ \E outcome \in OutcomeVectors : SendWhatsAppNotifications(r, outcome)
  \/ \E wh \in WebhookOutcomes, outcome \in OutcomeVectors :
        SendToServer(r, wh, outcome)
  \/ \E readOk \in BOOLEAN : AddTrackingNumbersLoad(r, readOk)
  \/ \E writeOk \in BOOLEAN : AddTrackingNumbersWrite(r, writeOk)
  \/ \E upsertOk \in BOOLEAN : SaveProcessedSheet(r, upsertOk)

Next ==
  \/ \E r \in Runs : Invocation(r)
  \/ \E cutoff \in 1..(MaxRuns + 1), deleteOk \in BOOLEAN :
        cleanupOldData(cutoff, deleteOk)

Spec == Init /\ [][Next]_vars

\* the same pipeline run repeatedly over spreadsheets nobody edits
InitTwice ==
  /\ env \in Envs
  /\ ledger = EmptyTable
  /\ processedSheets = [n \in {} |-> 0]
  /\ run = [r \in Runs |-> IdleRun]
  /\ source \in {FixedSource(rows, clientMap) :
                    rows \in SheetContents, clientMap \in ClientDirs}
  /\ bp = IdleBatch
  /\ px = IdleExtract
  /\ cell = IdleCell
  /\ msg = IdleMessage
  /\ phone = IdlePhone
  /\ rq = IdleQueues
  /\ rl = IdleLimiter

SpecTwice == InitTwice /\ [][Next]_vars

----------------------------------------------------------------------------
(* Two invocations for the same sheet at the same time: each `await` lets  *)
(* the other invocation run                                                *)

Racers == {1, 2}

\* the sheet both invocations read: a header and one or two data rows, the
\* second one a valid order
RaceSheets ==
  {rows \in SheetContents :
     Len(rows) = 2 \/ (Len(rows) = 3 /\ rows[3].track # "" /\ rows[3].code = "A")}

InitRace ==
  /\ env = WorkingEnv
  /\ ledger = EmptyTable
  /\ processedSheets = [n \in {} |-> 0]
  /\ run = [r \in Runs |-> IdleRun]
  /\ source \in {FixedSource(rows, clientMap) :
                    rows \in RaceSheets, clientMap \in ClientDirs}
  /\ bp = IdleBatch
  /\ px = IdleExtract
  /\ cell = IdleCell
  /\ msg = IdleMessage
  /\ phone = IdlePhone
  /\ rq = IdleQueues
  /\ rl = IdleLimiter

NextRace ==
  \E r \in Racers :
    \/ StartConcurrently(r, SheetTitles[1])
    \/ \E getOk \in BOOLEAN : FetchSheets(r, getOk)
    \/ \E readOk \in BOOLEAN : LoadSent(r, readOk)
    \/ \E clientMap \in ClientDirs \cup {EmptyMap} : BuildClientMap(r, clientMap)
    \/ \E fetchOk \in BOOLEAN, rows \in SheetContents :
          ProcessOrders(r, fetchOk, rows)
    \/ \E outcome \in OutcomeVectors : SendWhatsAppNotifications(r, outcome)
    \/ \E wh \in WebhookOutcomes, outcome \in OutcomeVectors :
          SendToServer(r, wh, outcome)
    \/ \E readOk \in BOOLEAN : AddTrackingNumbersLoad(r, readOk)
    \/ \E writeOk \in BOOLEAN : AddTrackingNumbersWrite(r, writeOk)
    \/ \E upsertOk \in BOOLEAN : SaveProcessedSheet(r, upsertOk)

SpecRace == InitRace /\ [][NextRace]_vars

----------------------------------------------------------------------------
(* BatchProcessor.processBatch as sendBulkOrderNotifications calls it:     *)
(* the sends of one call, each settling on its own                         *)

\* number of batches the loop `for (i = 0; i < items.length; i += batchSize)`
\* pushes
NumBatches(n, batchSize) == (n + batchSize - 1) \div batchSize

\* a slice that loses the last item of a full batch
BatchItemsShort(n, b, batchSize) ==
  {k \in 1..n : (b - 1) * batchSize < k /\ k < b * batchSize}

\* the item indices of batch b: items.slice(i, i + batchSize)
BatchItems(n, b, batchSize) ==
  {k \in 1..n : (b - 1) * batchSize < k /\ k <= b * batchSize}

\* batch number of item k
BatchOf(k, batchSize) == ((k - 1) \div batchSize) + 1

\* the batches of one round: batches.slice(i, i + CONCURRENT_BATCHES)
CurrentBatches(next, numBatches) ==
  {b \in 1..numBatches : next <= b /\ b < next + CONCURRENT_BATCHES}

\* n orders of n clients with pairwise different phone numbers
BatchPhones == <<"p01", "p02", "p03", "p04", "p05", "p06", "p07",
                 "p08", "p09", "p10", "p11", "p12", "p13", "p14">>
BatchOrders(n) ==
  [i \in 1..n |-> [fullName |-> "n", phoneNumber |-> BatchPhones[i],
                   pickupPoint |-> "pp", trackingNumber |-> "T1"]]

InFlight == {k \in 1..Len(bp.status) : bp.status[k] = "inflight"}

\* sendBulkOrderNotifications is entered: the orders are grouped by phone
BulkStart(n) ==
  /\ ~bp.active /\ ~bp.returned
  /\ LET list == ClientOrdersList(BatchOrders(n))
     IN  bp' = [IdleBatch EXCEPT
                  !.active = TRUE, !.items = list,
                  !.status = [k \in 1..Len(list) |-> "idle"],
                  !.attempts = [k \in 1..Len(list) |-> 0]]
  /\ UNCHANGED <<env, ledger, processedSheets, run, source, px, cell, msg, phone, rq, rl>>

\* one round of the loop over the batches: the processor is called for every
\* item of every batch of the round before anything is awaited
LaunchBatches ==
  /\ bp.active
  /\ InFlight = {}
  /\ bp.next <= NumBatches(Len(bp.items), BATCH_SIZE)
  /\ LET n == Len(bp.items)
         round == CurrentBatches(bp.next, NumBatches(n, BATCH_SIZE))
         launched == UNION {BatchItems(n, b, BATCH_SIZE) : b \in round}
     IN  bp' = [bp EXCEPT
                  !.next = @ + CONCURRENT_BATCHES,
                  !.status = [k \in 1..n |-> IF k \in launched THEN "inflight"
                                             ELSE bp.status[k]],
                  !.attempts = [k \in 1..n |-> IF k \in launched
                                               THEN bp.attempts[k] + 1
                                               ELSE bp.attempts[k]]]
  /\ UNCHANGED <<env, ledger, processedSheets, run, source, px, cell, msg, phone, rq, rl>>

\* the processor of item k settles: the gateway answered (or the request
\* failed, timed out or threw) and the delay after the send has elapsed
SettleSend(k, outcome) ==
  /\ bp.active
  /\ k \in InFlight
  /\ bp' = [bp EXCEPT !.status[k] =
               SettledValue(sendClientOrdersNotification(env.gateway,
                                                         bp.items[k], outcome))]
  /\ UNCHANGED <<env, ledger, processedSheets, run, source, px, cell, msg, phone, rq, rl>>

\* every round is over: sent and failed are counted and returned
BulkReturn ==
  /\ bp.active
  /\ InFlight = {}
  /\ bp.next > NumBatches(Len(bp.items), BATCH_SIZE)
  /\ LET fulfilled == {k \in 1..Len(bp.items) : bp.status[k] \in {"true", "false"}}
         sent == Cardinality({k \in fulfilled : bp.status[k] = "true"})
     IN  bp' = [bp EXCEPT !.active = FALSE, !.returned = TRUE,
                          !.result = [sent |-> sent,
                                      failed |-> Len(bp.items) - sent]]
  /\ UNCHANGED <<env, ledger, processedSheets, run, source, px, cell, msg, phone, rq, rl>>

InitBatch ==
  /\ env = WorkingEnv
  /\ ledger = EmptyTable
  /\ processedSheets = [n \in {} |-> 0]
  /\ run = [r \in Runs |-> IdleRun]
  /\ source = FreeSource
  /\ bp = IdleBatch
  /\ px = IdleExtract
  /\ cell = IdleCell
  /\ msg = IdleMessage
  /\ phone = IdlePhone
  /\ rq = IdleQueues
  /\ rl = IdleLimiter

NextBatch ==
  \/ \E n \in 0..NClients : BulkStart(n)
  \/ LaunchBatches
  \/ \E k \in 1..NClients, outcome \in GatewayOutcomes : SettleSend(k, outcome)
  \/ BulkReturn

SpecBatch == InitBatch /\ [][NextBatch]_vars

----------------------------------------------------------------------------
(* processOrders on its own: any sheet values, any client map              *)

\* sheet values: a header and data rows of every kind
ExtractSheets == {<<Header>> \o d : d \in SeqsUpTo(RowKinds, MaxRows + 1)}

\* processOrders(sheet, clientMap) runs its loop over the rows it fetched
ExtractOrders ==
  /\ ~px.called
  /\ px' = [px EXCEPT
              !.called = TRUE,
              !.caught = LoopThrows(px.rows, px.clientMap),
              !.storage = processOrders(TRUE, px.rows, px.clientMap),
              !.skippedOrders =
                 IF LoopThrows(px.rows, px.clientMap) THEN 0
                 ELSE SkippedFrom(px.rows, 2, px.clientMap)]
  /\ UNCHANGED <<env, ledger, processedSheets, run, source, bp, cell, msg, phone, rq, rl>>

InitExtract ==
  /\ env = WorkingEnv
  /\ ledger = EmptyTable
  /\ processedSheets = [n \in {} |-> 0]
  /\ run = [r \in Runs |-> IdleRun]
  /\ source = FreeSource
  /\ bp = IdleBatch
  /\ px \in {[IdleExtract EXCEPT !.rows = rows, !.clientMap = clientMap] :
               rows \in ExtractSheets, clientMap \in ClientDirs \cup {EmptyMap}}
  /\ cell = IdleCell
  /\ msg = IdleMessage
  /\ phone = IdlePhone
  /\ rq = IdleQueues
  /\ rl = IdleLimiter

SpecExtract == InitExtract /\ [][ExtractOrders]_vars

----------------------------------------------------------------------------
(* Properties of the pipeline                                              *)

\* the invocation is past the notification step
Notified(r) ==
  run[r].pc \in {"webhook", "persistLoad", "persistWrite", "saveSheet"}
  \/ (run[r].pc = "done" /\ run[r].result.message.kind = "processed")

\* the tracking numbers of the notifications the invocation attempted
AttemptedTracks(r) ==
  UNION {Range(run[r].clientOrdersList[i].orders) :
           i \in 1..Len(run[r].clientOrdersList)}

\* the tracking numbers of the requests the invocation made to the gateway
RequestedTracks(r) ==
  UNION {run[r].requests[i].tracks : i \in 1..Len(run[r].requests)}

\* C1: a tracking number that is in the ledger when an invocation starts is
\* in no notification that invocation attempts and in no request it makes
\* to the gateway, whatever the store, the gateway and the webhook do.
C1_LedgeredNeverNotified ==
  \A r \in Runs :
    (AttemptedTracks(r) \cup RequestedTracks(r)) \cap run[r].startLedger = {}

\* C2: an invocation that found new orders has called the ledger write once
\* the notification attempt is over, and when it returns every new tracking
\* number of the invocation is in the ledger.
C2_NewNumbersInLedgerAtReturn ==
  \A r \in Runs :
    /\ (run[r].pc \in {"persistWrite", "saveSheet"} => run[r].addCalls = 1)
    /\ (run[r].pc = "done" /\ run[r].newCount > 0
          => /\ run[r].addCalls = 1
             /\ Range(run[r].newTrackingNumbers) \subseteq TableNumbers(ledger))

\* C3: an invocation whose filter finds no new order (newCount = 0 over at
\* least one valid order) returns the nothing-new summary with success, has
\* attempted no notification, made no gateway request and no webhook POST,
\* has not called the ledger write, and leaves the ledger as it found it.
C3_NothingNewNoSideEffect ==
  \A r \in Runs :
    (run[r].pc \notin {"idle", "past"} /\ Len(run[r].storage) > 0
       /\ run[r].newCount = 0)
    => /\ run[r].pc = "done"
       /\ run[r].result.success
       /\ run[r].result.message = NothingNewMessage(run[r].alreadySentCount)
       /\ run[r].clientOrdersList = <<>>
       /\ run[r].requests = <<>>
       /\ run[r].webhookPosts = 0
       /\ run[r].addCalls = 0 /\ run[r].createCalls = 0
       /\ TableNumbers(ledger) = run[r].startLedger

\* a returned invocation all of whose orders were in the ledger from the start
C3_Witness ==
  \E r \in Runs :
    /\ run[r].pc = "done" /\ run[r].newCount = 0
    /\ run[r].alreadySentCount > 0
    /\ TracksOf(run[r].storage) \subseteq run[r].startLedger

\* the invocation has extracted and filtered the orders of the sheet
Filtered(r) ==
  run[r].pc \in {"notifying", "webhook", "persistLoad", "persistWrite",
                  "saveSheet", "done"}

\* C4: over unchanged sheet rows and client directory, an invocation that
\* follows one which performed its ledger write computes newCount = 0 and
\* sends nothing.
C4_SecondRunNothingNew ==
  \A r \in Runs :
    (r > 1 /\ source.fixed /\ Filtered(r)
       /\ run[r - 1].pc = "past" /\ run[r - 1].covered # {})
    => /\ run[r].newCount = 0
       /\ run[r].clientOrdersList = <<>>
       /\ run[r].requests = <<>>

----------------------------------------------------------------------------
(* Properties of the bulk sender                                           *)

Settled(k) == bp.status[k] \in {"true", "false", "rejected"}

\* C6: at most BATCH_SIZE client sends are in flight at any moment, and no
\* send of a later batch has started while a send of an earlier batch has
\* not settled.
C6_BoundedSequentialBatches ==
  /\ Cardinality(InFlight) <= BATCH_SIZE
  /\ \A j, k \in 1..Len(bp.status) :
       (BatchOf(k, BATCH_SIZE) > BatchOf(j, BATCH_SIZE) /\ bp.status[k] # "idle")
       => Settled(j)

\* C7: no client of the list is sent to twice, a send that has started is
\* either still in flight or settled with its own outcome whatever the
\* other sends did, and when the call returns every client has been sent
\* to exactly once and the call hands back a {sent, failed} value.
C7_EveryClientAttemptedOnce ==
  /\ \A k \in 1..Len(bp.items) :
       /\ bp.attempts[k] <= 1
       /\ (bp.attempts[k] = 1) = (bp.status[k] # "idle")
  /\ bp.returned =>
       /\ \A k \in 1..Len(bp.items) :
            bp.attempts[k] = 1 /\ bp.status[k] \in {"true", "false"}
       /\ bp.result.sent =
            Cardinality({k \in 1..Len(bp.items) : bp.status[k] = "true"})
       /\ bp.result.sent + bp.result.failed = Len(bp.items)

\* the call has returned after a send of the first batch failed while a
\* send of the second batch succeeded
C7_Witness ==
  /\ bp.returned
  /\ Len(bp.items) > BATCH_SIZE
  /\ \E j, k \in 1..Len(bp.items) :
       /\ BatchOf(j, BATCH_SIZE) = 1 /\ bp.status[j] = "false"
       /\ BatchOf(k, BATCH_SIZE) = 2 /\ bp.status[k] = "true"

\* the direct sends of the invocation the gateway accepted
SucceededDirect(r) ==
  {i \in 1..Len(run[r].requests) :
     run[r].requests[i].via = "direct" /\ run[r].requests[i].ok = "true"}

\* C8: the {sent, failed} result of the notification step counts client
\* order sets: sent + failed is the number of client codes with new orders,
\* sent the number of successful sends.
C8_CountsAreClients ==
  \A r \in Runs :
    Notified(r)
    => /\ run[r].whatsappResult.sent + run[r].whatsappResult.failed
            = Len(run[r].newToSend)
       /\ run[r].whatsappResult.sent = Cardinality(SucceededDirect(r))

ValidationKinds == {"sheetRequired", "noSpreadsheetId", "noAuth"}
FetchingKinds == {"error", "notFound"}

StatesFailureTally(r) ==
  LET m == run[r].result.message
  IN  \/ m.whatsapp = "failed" /\ m.waCount = run[r].whatsappResult.failed
      \/ m.whatsapp = "sent"
         /\ m.waTotal - m.waCount = run[r].whatsappResult.failed

\* C10: an invocation with new orders returns success = true, its message
\* states the tally of failed sends when a send failed and states that the
\* webhook failed when the forward returned success = false.
C10_FailuresReportedInMessage ==
  \A r \in Runs :
    (run[r].pc = "done" /\ run[r].newCount > 0)
    => /\ run[r].result.success
       /\ (run[r].whatsappResult.failed > 0 => StatesFailureTally(r))
       /\ (~run[r].sendResult.success
             => run[r].result.message.webhook = "failed")

\* how far an invocation is: every step of it moves it forward
Rank(pc) ==
  CASE pc = "idle" -> 0
    [] pc = "fetching" -> 1
    [] pc = "loading" -> 2
    [] pc = "clientMap" -> 3
    [] pc = "extracting" -> 4
    [] pc = "notifying" -> 5
    [] pc = "webhook" -> 6
    [] pc = "persistLoad" -> 7
    [] pc = "persistWrite" -> 8
    [] pc = "saveSheet" -> 9
    [] pc \in {"done", "failed", "threw"} -> 10
    [] OTHER -> 11

Running(r) == run[r].pc \notin {"idle", "done", "failed", "threw", "past"}

\* the step that follows the call invocation r is waiting for can be taken
CanContinue(r) ==
  CASE run[r].pc = "fetching" ->
         ENABLED (\E getOk \in BOOLEAN : FetchSheets(r, getOk))
    [] run[r].pc = "loading" ->
         ENABLED (\E readOk \in BOOLEAN : LoadSent(r, readOk))
    [] run[r].pc = "clientMap" ->
         ENABLED (\E clientMap \in ClientDirs \cup {EmptyMap} :
                    BuildClientMap(r, clientMap))
    [] run[r].pc = "extracting" ->
         ENABLED (\E fetchOk \in BOOLEAN, rows \in SheetContents :
                    ProcessOrders(r, fetchOk, rows))
    [] run[r].pc = "notifying" ->
         ENABLED (\E outcome \in OutcomeVectors :
                    SendWhatsAppNotifications(r, outcome))
    [] run[r].pc = "webhook" ->
         ENABLED (\E wh \in WebhookOutcomes, outcome \in OutcomeVectors :
                    SendToServer(r, wh, outcome))
    [] run[r].pc = "persistLoad" ->
         ENABLED (\E readOk \in BOOLEAN : AddTrackingNumbersLoad(r, readOk))
    [] run[r].pc = "persistWrite" ->
         ENABLED (\E writeOk \in BOOLEAN : AddTrackingNumbersWrite(r, writeOk))
    [] run[r].pc = "saveSheet" ->
         ENABLED (\E upsertOk \in BOOLEAN : SaveProcessedSheet(r, upsertOk))
    [] OTHER -> FALSE

\* C11: whatever the sheet, the store, the gateway and the webhook do, no
\* exception leaves processAndSendSheetData and an invocation that has
\* returned holds a {success, message} value; the first invocation, while
\* it has not returned, can always take its next step (the later ones run
\* the same code), and every step of an invocation moves it forward towards
\* its return, so that it returns after at most ten steps.
C11_AlwaysReturnsResult ==
  /\ [](\A r \in Runs :
          /\ run[r].pc # "threw"
          /\ (run[r].pc \in {"done", "failed"}
                => run[r].result.message.kind # "none"))
  /\ [](Running(1) => CanContinue(1))
  /\ [][\A r \in Runs :
          /\ Rank(run'[r].pc) >= Rank(run[r].pc)
          /\ (Running(r) /\ run'[r] # run[r])
               => Rank(run'[r].pc) > Rank(run[r].pc)]_vars

\* an invocation returned the failure made from an exception thrown inside
C11_Witness ==
  \E r \in Runs :
    /\ run[r].pc = "failed" /\ ~run[r].result.success
    /\ run[r].result.message.kind = "error"
    /\ run[r].sheetCalls = 1

\* the sheet names the validation refuses
BlankNames == {"", " "}

\* C12: an invocation whose sheet name is empty or blank, or that finds no
\* spreadsheet identifier configured, returns success = false with the
\* message of that cause and has made no call to the spreadsheets, no ledger
\* read or write, no gateway request, no webhook POST and no marker update.
C12_ValidationFailureNoCall ==
  \A r \in Runs :
    (run[r].pc \notin {"idle", "past"}
       /\ (run[r].selectedSheet \in BlankNames \/ ~env.spreadsheetId))
    => /\ run[r].pc = "failed" /\ ~run[r].result.success
       /\ run[r].result.message.kind =
            (IF run[r].selectedSheet \in BlankNames THEN "sheetRequired"
             ELSE "noSpreadsheetId")
       /\ run[r].sheetCalls = 0 /\ run[r].readCalls = 0
       /\ run[r].clientOrdersList = <<>> /\ run[r].requests = <<>>
       /\ run[r].webhookPosts = 0
       /\ run[r].addCalls = 0 /\ run[r].createCalls = 0
       /\ run[r].markerCalls = 0
       /\ TableNumbers(ledger) = run[r].startLedger

\* an invocation was refused for a blank sheet name while the ledger and the
\* marker table already held what an earlier invocation wrote
C12_Witness ==
  \E r \in Runs :
    /\ run[r].pc = "failed" /\ run[r].selectedSheet = " "
    /\ run[r].result.message.kind = "sheetRequired"
    /\ Len(ledger) > 0 /\ DOMAIN processedSheets # {}

\* the sheet was looked for in the live list and is not there
SheetAbsent(r) ==
  /\ run[r].pc \notin {"idle", "past", "fetching"}
  /\ run[r].selectedSheet \notin BlankNames
  /\ env.spreadsheetId /\ env.sheets
  /\ run[r].result.message.kind # "error"
  /\ run[r].selectedSheet \notin Range(SheetTitles)

\* C13: an invocation whose sheet name is the title of no sheet of the live
\* list returns success = false with a message that lists the titles of the
\* list, and has made no ledger read or write, no gateway request and no
\* webhook POST.
C13_SheetNotFound ==
  \A r \in Runs :
    SheetAbsent(r)
    => /\ run[r].pc = "failed" /\ ~run[r].result.success
       /\ run[r].result.message.kind = "notFound"
       /\ run[r].result.message.available = SheetTitles
       /\ run[r].sheetCalls = 1 /\ run[r].readCalls = 0
       /\ run[r].clientOrdersList = <<>> /\ run[r].requests = <<>>
       /\ run[r].webhookPosts = 0
       /\ run[r].addCalls = 0 /\ run[r].createCalls = 0
       /\ TableNumbers(ledger) = run[r].startLedger

\* the sheet list was fetched and the requested sheet is not in it
C13_Witness ==
  \E r \in Runs :
    /\ SheetAbsent(r) /\ run[r].selectedSheet = "S9"
    /\ run[r].pc = "failed" /\ run[r].sheetCalls = 1

\* C14: the webhook forward never raises: when the POST fails it returns
\* success = false with a message, and the invocation goes on to the ledger
\* write and the marker update and returns success = true.
C14_WebhookFailureContinues ==
  \A r \in Runs :
    (run[r].webhookPosts = 1 /\ ~run[r].sendResult.success)
    => /\ run[r].sendResult.message \in {"webhookError", "noResponse"}
       /\ run[r].pc \in {"persistLoad", "persistWrite", "saveSheet", "done"}
       /\ (run[r].pc # "persistLoad" => run[r].addCalls = 1)
       /\ (run[r].pc = "done"
             => /\ run[r].markerCalls = 1
                /\ run[r].result.success
                /\ run[r].result.message.kind = "processed")

\* an invocation returned after a webhook POST nothing answered
C14_Witness ==
  \E r \in Runs :
    /\ run[r].pc = "done" /\ run[r].webhookPosts = 1
    /\ run[r].sendResult.message = "noResponse"
    /\ run[r].createCalls = 1 /\ run[r].persisted
    /\ run[r].markerCalls = 1

\* the orders of a list of client order sets, each with its client code
OrdersOf(sets) ==
  UNION {{[code |-> sets[k].code, id |-> sets[k].orders[i].id,
           track |-> sets[k].orders[i].track] : i \in 1..Len(sets[k].orders)} :
         k \in 1..Len(sets)}

\* C15: after the filter an extracted order is in the new output exactly
\* when its tracking number is not in the loaded sent set, newCount counts
\* the orders of the new output, newCount + alreadySentCount is the number
\* of extracted orders, no client of the new output has zero orders, and no
\* notification of the invocation carries a tracking number of the sent set.
C15_FilterPartitionsByLedger ==
  \A r \in Runs :
    (Filtered(r) /\ Len(run[r].storage) > 0)
    => /\ OrdersOf(run[r].newToSend) =
            {o \in OrdersOf(run[r].storage) :
               o.track \notin run[r].sentTrackingNumbers}
       /\ run[r].newCount = Cardinality(OrdersOf(run[r].newToSend))
       /\ run[r].newCount + run[r].alreadySentCount
            = Cardinality(OrdersOf(run[r].storage))
       /\ \A k \in 1..Len(run[r].newToSend) :
            Len(run[r].newToSend[k].orders) > 0
       /\ (AttemptedTracks(r) \cup RequestedTracks(r))
            \cap run[r].sentTrackingNumbers = {}

\* the filter kept the new order of one client and dropped a client all of
\* whose orders were in the loaded sent set
C15_Witness ==
  \E r \in Runs :
    /\ Filtered(r) /\ run[r].newCount > 0 /\ run[r].alreadySentCount > 0
    /\ Len(run[r].newToSend) < Len(run[r].storage)

\* C16: a tracking number an invocation has written to the ledger was
\* carried by a request that invocation made to the messaging gateway
\* before the write.
C16_LedgerOnlyAfterAttempt ==
  \A r \in Runs :
    (run[r].createCalls = 1 /\ run[r].persisted)
    => \A t \in Range(run[r].newNumbers) :
         \E i \in 1..Len(run[r].requests) :
           run[r].requests[i].via = "direct" /\ t \in run[r].requests[i].tracks

\* a data row that has its four cells, a tracking number, a client code and
\* a client of that code in the client map
ValidRow(row, clientMap) ==
  /\ row.n >= 4
  /\ row.track \notin BlankNames
  /\ row.code \notin BlankNames
  /\ row.code \in DOMAIN clientMap

DataRows == SubSeq(px.rows, 2, Len(px.rows))

\* the tracking numbers of the valid data rows of client code c, in row order
ValidTracksOf(c) ==
  LET mine == SelectSeq(DataRows,
                        LAMBDA row : ValidRow(row, px.clientMap) /\ row.code = c)
  IN  [i \in 1..Len(mine) |-> mine[i].track]

\* C17: processOrders throws nothing and skips exactly the data rows with
\* fewer than 4 cells, a blank tracking number, an empty client code or a
\* client code absent from the client map; every other data row yields
\* exactly one order under its client code, in row order and under an order
\* id of its own, so extracted orders + skipped rows = number of data rows.
C17_ExtractionSkipsExactlyInvalidRows ==
  px.called
  => /\ ~px.caught
     /\ px.skippedOrders =
          Cardinality({i \in 1..Len(DataRows) :
                         ~ValidRow(DataRows[i], px.clientMap)})
     /\ Cardinality(OrdersOf(px.storage)) + px.skippedOrders = Len(DataRows)
     /\ \A k \in 1..Len(px.storage) :
          /\ [i \in 1..Len(px.storage[k].orders) |-> px.storage[k].orders[i].track]
               = ValidTracksOf(px.storage[k].code)
          /\ \A j \in 1..Len(px.storage) :
               px.storage[j].code = px.storage[k].code => j = k
     /\ \A c \in ClientCodes :
          Len(ValidTracksOf(c)) > 0
          => \E k \in 1..Len(px.storage) : px.storage[k].code = c

\* C18: no step removes or changes a row of the ledger, the only step that
\* adds rows is the ledger write of an invocation, and no two rows of the
\* ledger have the same tracking number.
C18_LedgerAppendOnly ==
  /\ [][/\ Len(ledger') >= Len(ledger)
        /\ \A i \in 1..Len(ledger) : ledger'[i] = ledger[i]
        /\ ledger' # ledger
             => \E r \in Runs : /\ run[r].pc = "persistWrite"
                                 /\ run'[r].pc = "saveSheet"
                                 /\ run'[r].persisted]_vars
  /\ [](\A i, j \in 1..Len(ledger) :
          ledger[i].trackingNumber = ledger[j].trackingNumber => i = j)

\* the ledger holds the two numbers written by two invocations, the second
\* of which handed a number twice to the insert, and a cleanup has deleted
\* the marker the first invocation had written
C18_Witness ==
  /\ Len(ledger) = 2
  /\ \E r \in Runs : /\ run[r].persisted
                      /\ Len(run[r].newNumbers) = 2
                      /\ run[r].newNumbers[1] = run[r].newNumbers[2]
                      /\ run[r].marked
  /\ DOMAIN processedSheets = {}

DirectTracks(r) ==
  UNION {run[r].requests[i].tracks :
           i \in {j \in 1..Len(run[r].requests) : run[r].requests[j].via = "direct"}}

\* the rows of the ledger with tracking number t
RowsOf(t) == {i \in 1..Len(ledger) : ledger[i].trackingNumber = t}

\* C20: however two invocations for the same sheet interleave, the ledger
\* never holds two rows of one tracking number, and once an invocation's
\* insert has gone through the ledger holds exactly one row of each number
\* it handed in, also when both invocations had notified that number.
C20_RaceKeepsLedgerUnique ==
  /\ \A t \in TrackingNumbers : Cardinality(RowsOf(t)) <= 1
  /\ \A r \in Racers :
       run[r].persisted
       => \A t \in Range(run[r].newNumbers) : Cardinality(RowsOf(t)) = 1

\* both invocations loaded the ledger before either wrote it: both have sent
\* a notification with the same tracking number, both have handed that
\* number to the insert, and both have returned
C20_Witness ==
  /\ run[1].pc = "done" /\ run[2].pc = "done"
  /\ run[1].startLedger = {} /\ run[2].startLedger = {}
  /\ run[1].persisted /\ run[2].persisted
  /\ \E t \in TrackingNumbers :
       /\ t \in DirectTracks(1) \cap DirectTracks(2)
       /\ t \in Range(run[1].newNumbers) \cap Range(run[2].newNumbers)
       /\ Cardinality(RowsOf(t)) = 1

----------------------------------------------------------------------------
(* Duplicate tracking numbers within one sheet                             *)

\* how often x occurs in the sequence
CountIn(seq, x) == Cardinality({i \in 1..Len(seq) : seq[i] = x})

\* the tracking numbers of the orders of one client entry, in order
TracksOfEntry(entry) == [i \in 1..Len(entry.orders) |-> entry.orders[i].track]

\* how many valid rows of the sheet carry tracking number t
ValidRowCount(t) ==
  Cardinality({i \in 2..Len(source.rows) :
                 /\ ValidRow(source.rows[i], source.clientMap)
                 /\ Trim(source.rows[i].track) = t})

\* how many orders with tracking number t the client entries hold
RECURSIVE OrdersWith(_, _)
OrdersWith(entries, t) ==
  IF Len(entries) = 0 THEN 0
  ELSE CountIn(TracksOfEntry(Head(entries)), t) + OrdersWith(Tail(entries), t)

\* the client entries of the given phone number
OfPhone(entries, phoneNumber) ==
  SelectSeq(entries, LAMBDA e : e.phone = phoneNumber)

\* the invocation has extracted orders from the rows of the fixed sheet
ExtractedFixed(r) ==
  /\ source.fixed
  /\ Len(run[r].storage) > 0
  /\ run[r].pc \in {"notifying", "webhook", "persistLoad", "persistWrite",
                    "saveSheet", "done"}

\* C21: a tracking number that is not in the ledger and stands in k valid
\* rows of the sheet yields k new orders: newCount counts all of them, the
\* notification list of each client's phone number holds every one of its
\* orders (two clients sharing the number included), and once the insert
\* has gone through the ledger holds exactly one row of that number.
C21_DuplicatesKeptLedgerOnce ==
  \A r \in Runs :
    ExtractedFixed(r)
    => /\ \A t \in TrackingNumbers \ run[r].startLedger :
            /\ OrdersWith(run[r].newToSend, t) = ValidRowCount(t)
            /\ Cardinality(RowsOf(t)) <= 1
            /\ (run[r].persisted /\ ValidRowCount(t) > 0)
               => Cardinality(RowsOf(t)) = 1
            /\ Notified(r)
               => \A k \in 1..Len(run[r].newToSend) :
                    \E g \in 1..Len(run[r].clientOrdersList) :
                      /\ run[r].clientOrdersList[g].phoneNumber
                           = run[r].newToSend[k].phone
                      /\ CountIn(run[r].clientOrdersList[g].orders, t)
                           = OrdersWith(OfPhone(run[r].newToSend,
                                                run[r].newToSend[k].phone), t)
       /\ run[r].startLedger = {}
          => run[r].newCount
               = Cardinality({i \in 2..Len(source.rows) :
                                ValidRow(source.rows[i], source.clientMap)})

\* one tracking number in two valid rows of two different clients: two new
\* orders, both in the notification list, one row in the ledger
C21_Witness ==
  \E r \in Runs, t \in TrackingNumbers :
    /\ ExtractedFixed(r) /\ run[r].pc = "done" /\ run[r].persisted
    /\ t \notin run[r].startLedger
    /\ ValidRowCount(t) = 2
    /\ Len(run[r].newToSend) = 2
    /\ run[r].newCount = 2
    /\ Cardinality(RowsOf(t)) = 1

----------------------------------------------------------------------------
(* The numeric cells of one row as processOrders reads them                *)

\* "Вес заказа" of the order, from the text of column 5
ReadWeight(text) ==
  /\ cell.field = "none"
  /\ cell' = [field |-> "weight", text |-> text, value |-> NumericCell(text)]
  /\ UNCHANGED <<env, ledger, processedSheets, run, source, bp, px, msg, phone, rq, rl>>

\* "Цена заказа" of the order, from the text of column 8
ReadPrice(text) ==
  /\ cell.field = "none"
  /\ cell' = [field |-> "price", text |-> text, value |-> NumericCell(text)]
  /\ UNCHANGED <<env, ledger, processedSheets, run, source, bp, px, msg, phone, rq, rl>>

\* nothing has been called yet
InitIdle ==
  /\ env = WorkingEnv
  /\ ledger = EmptyTable
  /\ processedSheets = [n \in {} |-> 0]
  /\ run = [r \in Runs |-> IdleRun]
  /\ source = FreeSource
  /\ bp = IdleBatch
  /\ px = IdleExtract
  /\ cell = IdleCell
  /\ msg = IdleMessage
  /\ phone = IdlePhone
  /\ rq = IdleQueues
  /\ rl = IdleLimiter

SpecCell ==
  InitIdle /\ [][\/ \E text \in CellTexts : ReadWeight(text)
              \/ \E text \in CellTexts : ReadPrice(text)]_vars

\* the text is a decimal: digits with at most one separator, comma or point
IsDecimalText(s) ==
  LET t == ReplaceComma(s)
      int == DigitPrefix(t)
      rest == SubSeq(t, Len(int) + 1, Len(t))
      frac == IF Len(rest) > 0 THEN Tail(rest) ELSE <<>>
  IN  /\ Len(int) + Len(frac) > 0
      /\ Len(rest) > 0 => Head(rest) = "."
      /\ DigitPrefix(frac) = frac

\* C22: the weight and the price of an extracted order are each a number or
\* null, never a not-a-number value: an absent cell and a cell whose text is
\* not a decimal (comma or point as separator) both give null, and a decimal
\* text gives a number.
C22_NumberOrNull ==
  cell.field # "none"
  => /\ cell.value.kind \in {"number", "null"}
     /\ cell.value.kind = "number" <=> IsDecimalText(TrimText(cell.text))

----------------------------------------------------------------------------
(* One consolidated message for a client with several orders               *)

MessageOrders ==
  UNION {[1..k -> [weight : Weights, price : Prices]] : k \in 2..(MaxRows + 1)}

createMultipleOrdersMessage(orders) ==
  /\ ~msg.called
  /\ LET totalWeight == Total([i \in 1..Len(orders) |-> orders[i].weight])
         totalPrice == Total([i \in 1..Len(orders) |-> orders[i].price])
     IN  msg' = [called |-> TRUE, orders |-> orders,
                 totalWeightText |-> TotalText(totalWeight),
                 totalPriceText |-> TotalText(totalPrice)]
  /\ UNCHANGED <<env, ledger, processedSheets, run, source, bp, px, cell, phone, rq, rl>>

SpecMessage ==
  InitIdle /\ [][\E orders \in MessageOrders :
                 createMultipleOrdersMessage(orders)]_vars

\* the sum of the values that are not null, in tenths
RECURSIVE SumKnown(_)
SumKnown(values) ==
  IF Len(values) = 0 THEN 0
  ELSE (IF Head(values).kind = "null" THEN 0 ELSE Head(values).tenths)
       + SumKnown(Tail(values))

AllNull(values) == \A i \in 1..Len(values) : values[i].kind = "null"

\* the text the message must show for the values
ExpectedText(values) ==
  IF AllNull(values) THEN [kind |-> "notSpecified", tenths |-> 0]
  ELSE [kind |-> "amount", tenths |-> SumKnown(values)]

\* C23: in the consolidated message the total weight, and likewise the total
\* price, is the sum of the values that are not null, and "not specified" is
\* shown if and only if all of the values are null.
C23_TotalsSumKnownValues ==
  msg.called
  => /\ msg.totalWeightText
          = ExpectedText([i \in 1..Len(msg.orders) |-> msg.orders[i].weight])
     /\ msg.totalPriceText
          = ExpectedText([i \in 1..Len(msg.orders) |-> msg.orders[i].price])

\* the weights 2.5, null and 1.0 give the total 3.5
C23_Example ==
  (/\ msg.called /\ Len(msg.orders) = 3
   /\ msg.orders[1].weight = Amount(25) /\ msg.orders[2].weight = NoAmount
   /\ msg.orders[3].weight = Amount(10))
  => msg.totalWeightText = [kind |-> "amount", tenths |-> 35]

----------------------------------------------------------------------------
(* One phone number in the ways a client directory writes it               *)

\* 9-digit local mobile numbers: an operator code and six more digits
LocalNumbers ==
  LET OperatorCodes ==
        {<<"7", "0", "0">>, <<"5", "5", "0">>, <<"2", "2", "0">>, <<"9", "9", "6">>}
      SubscriberDigits ==
        {<<"1", "0", "0", "5", "1", "8">>, <<"9", "9", "6", "0", "0", "0">>,
         <<"0", "0", "0", "0", "0", "1">>, <<"5", "5", "5", "7", "7", "7">>}
  IN  {code \o rest : code \in OperatorCodes, rest \in SubscriberDigits}

Styles == {"bare", "bareSpaced", "bareDashed", "prefixed", "prefixedSpaced",
           "plus", "plusPunctuated"}

\* the local number d1..d9 written in the given style
Written(local, style) ==
  LET a == SubSeq(local, 1, 3)
      b == SubSeq(local, 4, 6)
      c == SubSeq(local, 7, 9)
  IN  CASE style = "bare" -> local
        [] style = "bareSpaced" -> a \o <<" ">> \o b \o <<" ">> \o c
        [] style = "bareDashed" -> a \o <<"-">> \o b \o <<"-">> \o c
        [] style = "prefixed" -> CountryCode \o local
        [] style = "prefixedSpaced" ->
             CountryCode \o <<" ">> \o a \o <<" ">> \o b \o <<" ">> \o c
        [] style = "plus" -> <<"+">> \o CountryCode \o local
        [] style = "plusPunctuated" ->
             <<"+">> \o CountryCode \o <<" ", "(">> \o a \o <<")", " ">> \o b
             \o <<"-">> \o c

FormatPhone(local, style) ==
  /\ ~phone.called
  /\ phone' = [called |-> TRUE, local |-> local, style |-> style,
               input |-> Written(local, style),
               chatId |-> formatPhoneNumber(Written(local, style))]
  /\ UNCHANGED <<env, ledger, processedSheets, run, source, bp, px, cell, msg, rq, rl>>

SpecPhone ==
  InitIdle /\ [][\E local \in LocalNumbers, style \in Styles :
                 FormatPhone(local, style)]_vars

\* C24: a 9-digit local mobile number, the same number with the 996 country
\* prefix, and the same number written with "+", spaces, dashes and
\* parentheses all map to the one gateway id 996<9 digits>@c.us.
C24_OneIdPerNumber ==
  phone.called => phone.chatId = CountryCode \o phone.local \o ChatSuffix

----------------------------------------------------------------------------
(* The processed-sheet marker                                              *)

\* C25: every invocation that reaches Done, one that finds no new orders
\* included, creates the marker of its sheet or updates its processedAt;
\* the markers are keyed by sheet name, one per name.
C25_MarkerUpsertedAtDone ==
  [][\A r \in Runs :
       (run[r].pc # "done" /\ run'[r].pc = "done")
       => /\ run'[r].selectedSheet \in DOMAIN processedSheets'
          /\ processedSheets'[run'[r].selectedSheet] = r]_vars

----------------------------------------------------------------------------
(* The webhook forward with and without NEXTAUTH_URL in the environment    *)

InitForward ==
  /\ env \in {[WorkingEnv EXCEPT !.nextAuthUrl = url] : url \in NextAuthUrls}
  /\ ledger = EmptyTable
  /\ processedSheets = [n \in {} |-> 0]
  /\ run = [r \in Runs |-> IdleRun]
  /\ source \in {FixedSource(rows, clientMap) :
                    rows \in RaceSheets, clientMap \in ClientDirs}
  /\ bp = IdleBatch
  /\ px = IdleExtract
  /\ cell = IdleCell
  /\ msg = IdleMessage
  /\ phone = IdlePhone
  /\ rq = IdleQueues
  /\ rl = IdleLimiter

SpecForward == InitForward /\ [][Next]_vars

\* the invocation is past the webhook forward
Forwarded(r) ==
  run[r].pc \in {"persistLoad", "persistWrite", "saveSheet"}
  \/ (run[r].pc = "done" /\ run[r].result.message.kind = "processed")

\* C26: when the environment supplies no webhook destination, the webhook
\* forward makes no HTTP request and returns success = true.
C26_NoUrlNoRequest ==
  \A r \in Runs :
    (env.nextAuthUrl = "" /\ Forwarded(r))
    => /\ run[r].webhookPosts = 0
       /\ run[r].sendResult.success

----------------------------------------------------------------------------
(* Client data of the ledger records                                       *)

\* C27: every record addTrackingNumbers inserts carries the clientName and
\* the phoneNumber of clientData[i], i being a position of its tracking
\* number in the input list, also when some of the input numbers are in the
\* ledger at write time and are filtered out before the insert.
C27_RecordCarriesOwnClient ==
  [][\A r \in Runs :
       (run[r].pc = "persistWrite" /\ run'[r].pc = "saveSheet")
       => \A j \in (Len(ledger) + 1)..Len(ledger') :
            \E i \in 1..Len(run[r].newTrackingNumbers) :
              /\ run[r].newTrackingNumbers[i] = ledger'[j].trackingNumber
              /\ ledger'[j].clientName = OrNull(run[r].clientData[i].name)
              /\ ledger'[j].phoneNumber = OrNull(run[r].clientData[i].phone)]_vars

----------------------------------------------------------------------------
(* RequestQueue: callers enqueue while operations run                      *)

\* enqueue(queueName, operation): the wrapper is pushed and processQueue is
\* called; the next operation number is the caller's
Enqueue(queueName) ==
  /\ rq.enqueued < rq.calls
  /\ queueName \in rq.names
  /\ LET op == rq.enqueued + 1
         pushed == [rq EXCEPT !.enqueued = op,
                              !.name[op] = queueName,
                              !.status[op] = "queued",
                              !.queues[queueName] = Append(@, op)]
     IN  rq' = processQueue(pushed, queueName)
  /\ UNCHANGED <<env, ledger, processedSheets, run, source, bp, px, cell, msg, phone, rl>>

\* a started operation settles: the wrapper resolves the caller's promise
\* with its result or rejects it with its error
SettleOperation(op) ==
  /\ rq.status[op] = "running"
  /\ rq' = [rq EXCEPT !.status[op] = IF op \in rq.throwing THEN "rejected"
                                     ELSE "resolved"]
  /\ UNCHANGED <<env, ledger, processedSheets, run, source, bp, px, cell, msg, phone, rl>>

\* processQueue after `await Promise.allSettled(...)`: a callback is
\* scheduled when operations wait, and the flag is cleared
ResumePass(queueName) ==
  /\ rq.passes[queueName] > 0
  /\ \A op \in Range(rq.batch[queueName]) :
       rq.status[op] \in {"resolved", "rejected"}
  /\ rq' = [rq EXCEPT
              !.scheduled[queueName] =
                 IF MoreItems(Len(rq.queues[queueName])) THEN @ + 1 ELSE @,
              !.processing[queueName] = FALSE,
              !.batch[queueName] = <<>>,
              !.passes[queueName] = @ - 1]
  /\ UNCHANGED <<env, ledger, processedSheets, run, source, bp, px, cell, msg, phone, rl>>

\* the setImmediate callback: processQueue(queueName)
RunImmediate(queueName) ==
  /\ rq.scheduled[queueName] > 0
  /\ rq' = processQueue([rq EXCEPT !.scheduled[queueName] = @ - 1], queueName)
  /\ UNCHANGED <<env, ledger, processedSheets, run, source, bp, px, cell, msg, phone, rl>>

\* the callers: many calls for one queue name, or a few calls for two
Callers ==
  {[names |-> {"q1"}, calls |-> MaxOps],
   [names |-> QueueNames, calls |-> MaxShared]}

\* the operations that throw
ThrowingSets == {{1}, {2, MaxOps}}

InitQueue ==
  /\ env = WorkingEnv
  /\ ledger = EmptyTable
  /\ processedSheets = [n \in {} |-> 0]
  /\ run = [r \in Runs |-> IdleRun]
  /\ source = FreeSource
  /\ bp = IdleBatch
  /\ px = IdleExtract
  /\ cell = IdleCell
  /\ msg = IdleMessage
  /\ phone = IdlePhone
  /\ rq \in {[IdleQueues EXCEPT !.throwing = t, !.names = c.names,
                                !.calls = c.calls] :
                t \in ThrowingSets, c \in Callers}
  /\ rl = IdleLimiter

NextQueue ==
  \/ \E queueName \in QueueNames : Enqueue(queueName)
  \/ \E op \in Operations : SettleOperation(op)
  \/ \E queueName \in QueueNames : ResumePass(queueName)
  \/ \E queueName \in QueueNames : RunImmediate(queueName)

SpecQueue == InitQueue /\ [][NextQueue]_vars

\* the operations enqueued under the name, in the order of the calls
EnqueuedOf(queueName) ==
  SelectSeq([op \in 1..rq.enqueued |-> op], LAMBDA op : rq.name[op] = queueName)

\* the operations of the queue that have started and not settled
InFlightOf(queueName) ==
  {op \in Operations : rq.name[op] = queueName /\ rq.status[op] = "running"}

\* C29: for each queue name at most one processQueue pass is active at a
\* time, at most MAX_CONCURRENT operations of the queue are in flight, and
\* the operations are started in the order they were enqueued.
C29_OnePassBoundedInOrder ==
  \A queueName \in QueueNames :
    /\ rq.passes[queueName] <= 1
    /\ rq.passes[queueName] = 1 <=> rq.processing[queueName]
    /\ Cardinality(InFlightOf(queueName)) <= MAX_CONCURRENT
    /\ rq.started[queueName]
         = SubSeq(EnqueuedOf(queueName), 1, Len(rq.started[queueName]))

\* a full batch is in flight while another operation waits in the queue
C29_Witness ==
  \E queueName \in QueueNames :
    /\ Cardinality(InFlightOf(queueName)) = MAX_CONCURRENT
    /\ Len(rq.queues[queueName]) > 0
    /\ rq.processing[queueName]

\* every started operation eventually settles, and the event loop runs the
\* continuations and callbacks that are ready
SpecQueueFair ==
  /\ SpecQueue
  /\ \A op \in Operations : WF_vars(SettleOperation(op))
  /\ \A queueName \in QueueNames :
       WF_vars(ResumePass(queueName)) /\ WF_vars(RunImmediate(queueName))

\* the promise of the operation has settled
OperationSettled(op) == rq.status[op] \in {"resolved", "rejected"}

\* the operation has been enqueued and has not settled
Pending(op) == rq.status[op] \in {"queued", "running"}

\* C28: every enqueued operation is started exactly once and the promise of
\* its caller settles with the result or the error of that operation: no
\* operation stays in a queue forever, whatever the queue names and however
\* the enqueue calls interleave with the running operations. A settled
\* operation stays settled and the callers make finitely many calls, so
\* "every pending operation settles" is "from some point on no operation is
\* pending".
C28_EveryOperationSettles ==
  /\ [](\A op \in Operations :
          /\ rq.starts[op] <= 1
          /\ rq.status[op] \in {"running", "resolved", "rejected"}
             => rq.starts[op] = 1
          /\ rq.status[op] = "resolved" => op \notin rq.throwing
          /\ rq.status[op] = "rejected" => op \in rq.throwing)
  /\ <>[](\A op \in Operations : ~Pending(op))

\* operations waited in the queue behind a running batch, and all of them
\* have settled, some resolved and some rejected
C28_Witness ==
  /\ rq.enqueued = MaxOps
  /\ \A op \in Operations : OperationSettled(op)
  /\ \E op \in Operations : rq.status[op] = "rejected"
  /\ \E op \in Operations : rq.status[op] = "resolved"
  /\ \E queueName \in QueueNames : Len(rq.started[queueName]) = MaxOps

----------------------------------------------------------------------------
(* Webhook POSTs under the rate limiter                                    *)

\* POST of the webhook route: applyRateLimit(request, "webhook") first, the
\* handler only when the limiter lets the request through
Post(clientId, body) ==
  /\ rl.posts < MaxPosts
  /\ LET result == CheckResult(rl.store, clientId, rl.now)
         outcome == PostOutcome(result, body)
         before == rl.window[clientId]
         opens == ~before.open \/ rl.now > before.resetTime
     IN  rl' = [rl EXCEPT
                  !.store = StoreAfterCheck(rl.store, clientId, rl.now),
                  !.posts = @ + 1,
                  !.window[clientId] =
                     IF opens
                     THEN [open |-> TRUE, resetTime |-> rl.now + WindowTicks,
                           position |-> 1]
                     ELSE [before EXCEPT !.position = @ + 1],
                  !.last = [clientId |-> clientId, allowed |-> result.allowed,
                            remaining |-> result.remaining,
                            resetTime |-> result.resetTime,
                            status |-> outcome.status, sends |-> outcome.sends]]
  /\ UNCHANGED <<env, ledger, processedSheets, run, source, bp, px, cell, msg, phone, rq>>

\* time passes
Tick ==
  /\ rl.now < MaxTime
  /\ rl' = [rl EXCEPT !.now = @ + 1]
  /\ UNCHANGED <<env, ledger, processedSheets, run, source, bp, px, cell, msg, phone, rq>>

\* the setInterval callback of the constructor
Cleanup ==
  /\ rl' = [rl EXCEPT !.store = StoreAfterCleanup(rl.store, rl.now)]
  /\ UNCHANGED <<env, ledger, processedSheets, run, source, bp, px, cell, msg, phone, rq>>

NextLimiter ==
  \/ \E clientId \in ClientIds, body \in PostBodies : Post(clientId, body)
  \/ Tick
  \/ Cleanup

SpecLimiter == InitIdle /\ [][NextLimiter]_vars

\* C30: within one window of a client, from the request that opened it
\* until its reset time, exactly the first WEBHOOK_MAX_REQUESTS calls are
\* allowed and every further call is refused with remaining = 0; the first
\* call after the reset time opens a new window, counts 1 and is allowed. A
\* webhook POST the limiter refuses gets status 429 and no gateway send.
C30_WindowAllowsFirstCalls ==
  rl.last.clientId # "none"
  => LET w == rl.window[rl.last.clientId]
     IN  /\ rl.last.allowed <=> w.position <= WEBHOOK_MAX_REQUESTS
         /\ ~rl.last.allowed => rl.last.remaining = 0
         /\ rl.last.resetTime = w.resetTime
         /\ w.position = 1
            => /\ rl.last.allowed
               /\ rl.store[rl.last.clientId].present
                  => rl.store[rl.last.clientId].count = 1
         /\ ~rl.last.allowed => rl.last.status = 429 /\ rl.last.sends = 0
         /\ rl.last.allowed => rl.last.status # 429

\* a client is refused by the call after its first WEBHOOK_MAX_REQUESTS
\* calls, made at the very reset time of the window
C30_Witness ==
  /\ rl.last.clientId # "none" /\ ~rl.last.allowed
  /\ rl.last.status = 429 /\ rl.last.sends = 0
  /\ rl.window[rl.last.clientId].position = WEBHOOK_MAX_REQUESTS + 1
  /\ rl.now = rl.window[rl.last.clientId].resetTime

====
